---- MODULE Spec2Model ----
(***************************************************************************)
(* A model of skyfield/toposlib.py: the Topos class (a location on the     *)
(* Earth's surface), its constructor and its four query methods.           *)
(*                                                                         *)
(* Numbers.  The program computes in floating point; the model computes    *)
(* in exact integers.  Angles in "radians" are counted in quarter turns,   *)
(* so tau is 4, a degree is 1/90 of the unit, an arcsecond 1/324000 and    *)
(* an hour of sidereal time 1/6; every angle the model feeds in is a       *)
(* whole number of quarter turns, which makes every sine and cosine one    *)
(* of -1, 0, 1 and every rotation matrix exact.  Lengths in "au" are       *)
(* counted in metres.                                                      *)
(*                                                                         *)
(* Arrays.  A numpy array is a record [bshape, at]: bshape is the shape    *)
(* of the trailing (batch) axes, << >> for one instant or <<n>> for a      *)
(* batch of n instants, and at holds the components, each a sequence of    *)
(* Size(bshape) integers.                                                  *)
(***************************************************************************)
EXTENDS Integers, Sequences, FiniteSets, TLC

\* The longest batch of instants an orientation state holds.
MaxBatch == 3

\* The same, in the specification that remembers an earlier call.
MaxIdemBatch == 1

(***************************************************************************)
(* numpy: shapes, broadcasting, einsum                                     *)
(***************************************************************************)

Size(bshape) == IF bshape = << >> THEN 1 ELSE bshape[1]

\* numpy's broadcasting rule on the axes an einsum ellipsis stands for.
Broadcastable(s1, s2) ==
    \/ s1 = << >>
    \/ s2 = << >>
    \/ s1[1] = s2[1]
    \/ s1[1] = 1
    \/ s2[1] = 1

BroadcastShape(s1, s2) ==
    IF s1 = << >> THEN s2
    ELSE IF s2 = << >> THEN s1
    ELSE IF s1[1] = 1 THEN s2
    ELSE s1

\* The element of a broadcast operand that takes part in instant k.
Idx(bshape, k) == IF Size(bshape) = 1 THEN 1 ELSE k

\* The exception numpy raises when operands cannot be broadcast together.
BroadcastError == [error |-> "ValueError", raisedBy |-> "einsum"]

IsError(r) == "error" \in DOMAIN r

\* einsum('ij...,j...->i...', A, v)
einsum_ij_j(A, v) ==
    IF ~Broadcastable(A.bshape, v.bshape) THEN BroadcastError
    ELSE LET s == BroadcastShape(A.bshape, v.bshape)
             a(i, j, k) == A.at[i][j][Idx(A.bshape, k)]
             b(j, k) == v.at[j][Idx(v.bshape, k)]
         IN  [bshape |-> s,
              at |-> [i \in 1..3 |->
                        [k \in 1..Size(s) |->
                            a(i, 1, k) * b(1, k) + a(i, 2, k) * b(2, k)
                              + a(i, 3, k) * b(3, k)]]]

\* einsum('ij...,jk...,kl...->il...', A, B, C)
einsum_ij_jk_kl(A, B, C) ==
    IF \/ ~Broadcastable(A.bshape, B.bshape)
       \/ ~Broadcastable(BroadcastShape(A.bshape, B.bshape), C.bshape)
    THEN BroadcastError
    ELSE LET s == BroadcastShape(BroadcastShape(A.bshape, B.bshape), C.bshape)
             a(i, j, n) == A.at[i][j][Idx(A.bshape, n)]
             b(j, k, n) == B.at[j][k][Idx(B.bshape, n)]
             c(k, l, n) == C.at[k][l][Idx(C.bshape, n)]
             bc(j, l, n) == b(j, 1, n) * c(1, l, n) + b(j, 2, n) * c(2, l, n)
                              + b(j, 3, n) * c(3, l, n)
         IN  [bshape |-> s,
              at |-> [i \in 1..3 |-> [l \in 1..3 |->
                        [n \in 1..Size(s) |->
                            a(i, 1, n) * bc(1, l, n) + a(i, 2, n) * bc(2, l, n)
                              + a(i, 3, n) * bc(3, l, n)]]]]

\* a + b on two vectors, element by element (the shapes agree where the
\* program adds).
VecAdd(a, b) ==
    LET s == BroadcastShape(a.bshape, b.bshape)
    IN  [bshape |-> s,
         at |-> [i \in 1..3 |-> [k \in 1..Size(s) |->
                    a.at[i][Idx(a.bshape, k)] + b.at[i][Idx(b.bshape, k)]]]]

\* A Python float as a numpy operand.
Scalar(x) == [bshape |-> << >>, at |-> <<x>>]

(***************************************************************************)
(* skyfield.constants, skyfield.functions, skyfield.earthlib               *)
(***************************************************************************)

\* A full circle, in the model's angle unit (the quarter turn).
tau == 4

\* Arcseconds, degrees and sidereal hours in one angle unit.
ASEC_PER_UNIT == 324000
DEG_PER_UNIT == 90
HOURS_PER_DAY == 24

Cos(q) == CASE q % 4 = 0 -> 1 [] q % 4 = 1 -> 0 [] q % 4 = 2 -> -1 [] OTHER -> 0
Sin(q) == CASE q % 4 = 0 -> 0 [] q % 4 = 1 -> 1 [] q % 4 = 2 -> 0 [] OTHER -> -1

\* cos(theta), sin(theta), 1 and 0 with the batch shape of theta.
CosOf(theta) == [k \in 1..Size(theta.bshape) |-> Cos(theta.at[k])]
SinOf(theta) == [k \in 1..Size(theta.bshape) |-> Sin(theta.at[k])]
Const(c, theta) == [k \in 1..Size(theta.bshape) |-> c]
Neg(col) == [k \in DOMAIN col |-> -col[k]]

rot_x(theta) ==
    LET c == CosOf(theta)
        s == SinOf(theta)
        one == Const(1, theta)
        zero == Const(0, theta)
    IN  [bshape |-> theta.bshape,
         at |-> << <<one, zero, zero>>,
                   <<zero, c, Neg(s)>>,
                   <<zero, s, c>> >>]

rot_y(theta) ==
    LET c == CosOf(theta)
        s == SinOf(theta)
        one == Const(1, theta)
        zero == Const(0, theta)
    IN  [bshape |-> theta.bshape,
         at |-> << <<c, zero, s>>,
                   <<zero, one, zero>>,
                   <<Neg(s), zero, c>> >>]

rot_z(theta) ==
    LET c == CosOf(theta)
        s == SinOf(theta)
        one == Const(1, theta)
        zero == Const(0, theta)
    IN  [bshape |-> theta.bshape,
         at |-> << <<c, Neg(s), zero>>,
                   <<s, c, zero>>,
                   <<zero, zero, one>> >>]

\* A[::-1]: the first axis reversed.
ReverseRows(A) == [bshape |-> A.bshape, at |-> <<A.at[3], A.at[2], A.at[1]>>]

\* The Earth's equatorial and polar radius and its rotation per day, in the
\* model's units.
ERAD_EQ == 6378137
ERAD_POL == 6356752
ANGVEL_PER_DAY == 6

\* terra(latitude, longitude, elevation, gast): the position and velocity of
\* the place in the Earth-fixed frame turned by the sidereal angle, one
\* column for every element of gast.
terra(latitude, longitude, elevation, gast) ==
    LET sinphi == Sin(latitude)
        cosphi == Cos(latitude)
        ach == (IF sinphi = 0 THEN ERAD_EQ ELSE ERAD_POL) + elevation
        ash == ERAD_POL + elevation
        stlocl(k) == (gast.at[k] * tau) \div HOURS_PER_DAY + longitude
        n == Size(gast.bshape)
    IN  [pos |-> [bshape |-> gast.bshape,
                  at |-> << [k \in 1..n |-> ach * cosphi * Cos(stlocl(k))],
                            [k \in 1..n |-> ach * cosphi * Sin(stlocl(k))],
                            [k \in 1..n |-> ash * sinphi] >>],
         vel |-> [bshape |-> gast.bshape,
                  at |-> << [k \in 1..n |->
                                -ANGVEL_PER_DAY * ach * cosphi * Sin(stlocl(k))],
                            [k \in 1..n |->
                                ANGVEL_PER_DAY * ach * cosphi * Cos(stlocl(k))],
                            [k \in 1..n |-> 0] >>]]

(***************************************************************************)
(* skyfield.units                                                          *)
(***************************************************************************)

None == [type |-> "NoneType"]

\* Angle(degrees=d): the angle keeps the degrees and their value in radians.
Angle(d) == [type |-> "Angle", degrees |-> d, radians |-> d \div DEG_PER_UNIT]

\* Distance(m=e): the distance keeps the metres and their value in au.
Distance(e) == [type |-> "Distance", m |-> e, au |-> e]

\* A (degrees, minutes, seconds) tuple or a float as decimal degrees.
_unsexagesimalize(value) ==
    IF value.type = "tuple"
    THEN value.value[1] + value.value[2] \div 60 + value.value[3] \div 3600
    ELSE value.value

\* _interpret_ltude(value, name, psuffix, nsuffix): a float, a tuple or a
\* string such as '90 N' as an Angle; a string that ends with neither
\* suffix is refused.
_interpret_ltude(value, name, psuffix, nsuffix) ==
    IF value.type # "str" THEN Angle(_unsexagesimalize(value))
    ELSE IF value.suffix = psuffix THEN Angle(value.number)
    ELSE IF value.suffix = nsuffix THEN Angle(-value.number)
    ELSE [error |-> "ValueError", raisedBy |-> "_interpret_ltude",
          parameter |-> name]

(***************************************************************************)
(* Topos                                                                   *)
(***************************************************************************)

\* The TypeError of line 24 and of line 33: the message, cut at the places
\* where the parameter's name is spliced into it.
LatitudeError ==
    [error |-> "TypeError", raisedBy |-> "Topos.__init__",
     message |-> <<"please provide either", "latitude_degrees=<float>", "or",
                   "latitude=<skyfield.units.Angle object>",
                   "with north being positive">>]

LongitudeErrorPasted ==
    [error |-> "TypeError", raisedBy |-> "Topos.__init__",
     message |-> <<"please provide either", "latitude_degrees=<float>", "or",
                   "latitude=<skyfield.units.Angle object>",
                   "with east being positive">>]

LongitudeError ==
    [error |-> "TypeError", raisedBy |-> "Topos.__init__",
     message |-> <<"please provide either", "longitude_degrees=<float>", "or",
                   "longitude=<skyfield.units.Angle object>",
                   "with east being positive">>]

\* isinstance(value, (str, float, tuple))
IsStrFloatTuple(value) == value.type \in {"str", "float", "tuple"}

\* Lines 19-26: the latitude as an Angle, or the exception raised.
InitLatitude(a) ==
    IF a.latitude_degrees # None THEN Angle(a.latitude_degrees.value)
    ELSE IF IsStrFloatTuple(a.latitude)
    THEN _interpret_ltude(a.latitude, "latitude", "N", "S")
    ELSE IF a.latitude.type # "Angle" THEN LatitudeError
    ELSE a.latitude

\* Lines 28-35: the longitude as an Angle, or the exception raised.
InitLongitude(a) ==
    IF a.longitude_degrees # None THEN Angle(a.longitude_degrees.value)
    ELSE IF IsStrFloatTuple(a.longitude)
    THEN _interpret_ltude(a.longitude, "longitude", "E", "W")
    ELSE IF a.longitude.type # "Angle" THEN LongitudeError
    ELSE a.longitude

\* Topos.__init__(latitude, longitude, latitude_degrees, longitude_degrees,
\* elevation_m, x, y): the new object, or the exception raised.  The
\* latitude is settled, and may raise, before the longitude is looked at.
\* The attributes code and segments, which refer back to the object, are
\* left out: no method of the class reads them.
Topos_init(a) ==
    LET latitude == InitLatitude(a)
        longitude == InitLongitude(a)
    IN  IF IsError(latitude) THEN latitude
        ELSE IF IsError(longitude) THEN longitude
        ELSE [type |-> "Topos",
              latitude |-> latitude,
              longitude |-> longitude,
              elevation |-> Distance(a.elevation_m),
              x |-> a.x,
              y |-> a.y,
              R_lat |-> ReverseRows(rot_y(Scalar(latitude.radians))),
              ephemeris |-> None]

\* x * ASEC2RAD
AsecToRad(x) == x \div ASEC_PER_UNIT

\* Lines 94-99 with the rotations exchanged: the X rotation by y first.
PolarMotion_swapped(self, pos) ==
    LET pos2 == IF self.y # 0
                THEN einsum_ij_j(rot_x(Scalar(AsecToRad(self.y))), pos)
                ELSE pos
    IN  IF self.x # 0
        THEN einsum_ij_j(rot_y(Scalar(AsecToRad(self.x))), pos2)
        ELSE pos2

\* Lines 94-99: the polar motion, applied to the position.
PolarMotion(self, pos) ==
    LET pos2 == IF self.x # 0
                THEN einsum_ij_j(rot_y(Scalar(AsecToRad(self.x))), pos)
                ELSE pos
    IN  IF self.y # 0
        THEN einsum_ij_j(rot_x(Scalar(AsecToRad(self.y))), pos2)
        ELSE pos2

\* _position_and_velocity with the TODO of line 100 done: the velocity is
\* rotated as well.
_position_and_velocity_rotvel(self, jd) ==
    LET t == terra(self.latitude.radians, self.longitude.radians,
                   self.elevation.au, jd.gast)
        pos == einsum_ij_j(jd.MT, t.pos)
        vel == einsum_ij_j(jd.MT, t.vel)
    IN  [self |-> self,
         ret |-> IF IsError(pos) THEN pos
                 ELSE IF IsError(vel) THEN vel
                 ELSE [pos |-> PolarMotion(self, pos),
                       vel |-> PolarMotion(self, vel)]]

\* _position_and_velocity with terra given the first sidereal time of the
\* batch only.
_position_and_velocity_firstgast(self, jd) ==
    LET first == [bshape |-> jd.gast.bshape,
                  at |-> [k \in 1..Size(jd.gast.bshape) |-> jd.gast.at[1]]]
        t == terra(self.latitude.radians, self.longitude.radians,
                   self.elevation.au, first)
        pos == einsum_ij_j(jd.MT, t.pos)
        vel == einsum_ij_j(jd.MT, t.vel)
    IN  [self |-> self,
         ret |-> IF IsError(pos) THEN pos
                 ELSE IF IsError(vel) THEN vel
                 ELSE [pos |-> PolarMotion(self, pos), vel |-> vel]]

\* _position_and_velocity with the exception of einsum caught and the
\* vectors of terra returned as they are.
_position_and_velocity_caught(self, jd) ==
    LET t == terra(self.latitude.radians, self.longitude.radians,
                   self.elevation.au, jd.gast)
        pos == einsum_ij_j(jd.MT, t.pos)
        vel == einsum_ij_j(jd.MT, t.vel)
    IN  [self |-> self,
         ret |-> IF IsError(pos) \/ IsError(vel)
                 THEN [pos |-> t.pos, vel |-> t.vel]
                 ELSE [pos |-> PolarMotion(self, pos), vel |-> vel]]

\* Topos._position_and_velocity(jd): what the call returns (ret: the pair
\* (pos, vel), or the exception raised) and the object after the call.
_position_and_velocity(self, jd) ==
    LET t == terra(self.latitude.radians, self.longitude.radians,
                   self.elevation.au, jd.gast)
        pos == einsum_ij_j(jd.MT, t.pos)
        vel == einsum_ij_j(jd.MT, t.vel)
    IN  [self |-> self,
         ret |-> IF IsError(pos) THEN pos
                 ELSE IF IsError(vel) THEN vel
                 ELSE [pos |-> PolarMotion(self, pos), vel |-> vel]]

\* - self.longitude.radians - jd.gast * tau / 24.0
LonAngle(self, jd) ==
    [bshape |-> jd.gast.bshape,
     at |-> [k \in 1..Size(jd.gast.bshape) |->
                - self.longitude.radians
                - (jd.gast.at[k] * tau) \div HOURS_PER_DAY]]

\* _altaz_rotation with the operands of einsum in the opposite order.
_altaz_rotation_reversed(self, jd) ==
    [self |-> self,
     ret |-> einsum_ij_jk_kl(jd.M, rot_z(LonAngle(self, jd)), self.R_lat)]

\* _altaz_rotation with the three matrices multiplied element by element,
\* self.R_lat * R_lon * jd.M, in place of the einsum.
_altaz_rotation_elementwise(self, jd) ==
    LET A == self.R_lat
        B == rot_z(LonAngle(self, jd))
        C == jd.M
        s == BroadcastShape(B.bshape, C.bshape)
    IN  [self |-> self,
         ret |-> IF ~Broadcastable(B.bshape, C.bshape) THEN BroadcastError
                 ELSE [bshape |-> s,
                       at |-> [i \in 1..3 |-> [l \in 1..3 |->
                                 [n \in 1..Size(s) |->
                                    A.at[i][l][1] * B.at[i][l][Idx(B.bshape, n)]
                                      * C.at[i][l][Idx(C.bshape, n)]]]]]]

\* _altaz_rotation keeping its product as the latitude matrix.
_altaz_rotation_cached(self, jd) ==
    LET R == einsum_ij_jk_kl(self.R_lat, rot_z(LonAngle(self, jd)), jd.M)
    IN  [self |-> IF IsError(R) \/ R.bshape # << >> THEN self
                  ELSE [self EXCEPT !.R_lat = R],
         ret |-> R]

\* Topos._altaz_rotation(jd)
_altaz_rotation(self, jd) ==
    LET R_lon == rot_z(LonAngle(self, jd))
    IN  [self |-> self,
         ret |-> einsum_ij_jk_kl(self.R_lat, R_lon, jd.M)]

\* compute with the polar offset x cleared once it has been used.
compute_clears_x(self, jd) ==
    LET pv == _position_and_velocity(self, jd)
    IN  [self |-> [pv.self EXCEPT !.x = 0], ret |-> pv.ret]

\* Topos.compute(jd)
compute(self, jd) ==
    LET pv == _position_and_velocity(self, jd)
    IN  [self |-> pv.self, ret |-> pv.ret]

\* The distance of the Earth from the barycentre and its path per hour of
\* sidereal time, in the model's units.
EARTH_DIST == 149597870
EARTH_STEP == 107000

\* self.ephemeris['earth'].at(jd): the Earth's barycentric position and
\* velocity at the instants of jd.
EarthAt(ephemeris, jd) ==
    LET n == Size(jd.gast.bshape)
    IN  [position |-> [bshape |-> jd.gast.bshape,
                       at |-> << [k \in 1..n |-> EARTH_DIST],
                                 [k \in 1..n |-> EARTH_STEP * jd.gast.at[k]],
                                 [k \in 1..n |-> 0] >>],
         velocity |-> [bshape |-> jd.gast.bshape,
                       at |-> << [k \in 1..n |-> 0],
                                 [k \in 1..n |-> EARTH_STEP * HOURS_PER_DAY],
                                 [k \in 1..n |-> 0] >>]]

\* Lines 60-64: the Geocentric position with its attributes.
GeocentricAt(self, jd, pv, R) ==
    [type |-> "Geocentric",
     position |-> pv.pos,
     velocity |-> pv.vel,
     jd |-> jd,
     topos |-> self,
     ephemeris |-> self.ephemeris,
     altaz_rotation |-> R]

\* Lines 65-76 with the Earth's own position and velocity returned.
BarycentricAt_earth(self, jd, pv, R) ==
    LET e == EarthAt(self.ephemeris, jd)
    IN  [type |-> "Barycentric",
         position |-> e.position,
         velocity |-> e.velocity,
         jd |-> jd,
         geocentric |-> FALSE,
         rGCRS |-> pv.pos,
         vGCRS |-> pv.vel,
         topos |-> self,
         ephemeris |-> self.ephemeris,
         altaz_rotation |-> R]

\* Lines 65-76: the Barycentric position with its attributes.
BarycentricAt(self, jd, pv, R) ==
    LET e == EarthAt(self.ephemeris, jd)
    IN  [type |-> "Barycentric",
         position |-> VecAdd(e.position, pv.pos),
         velocity |-> VecAdd(e.velocity, pv.vel),
         jd |-> jd,
         geocentric |-> FALSE,
         rGCRS |-> pv.pos,
         vGCRS |-> pv.vel,
         topos |-> self,
         ephemeris |-> self.ephemeris,
         altaz_rotation |-> R]

\* Topos.at(jd): the position object returned, or the exception raised,
\* and the object after the call.
at(self, jd) ==
    LET pv == _position_and_velocity(self, jd)
        self1 == pv.self
        rot == _altaz_rotation(self1, jd)
        self2 == rot.self
    IN  IF IsError(pv.ret) THEN [self |-> self1, ret |-> pv.ret]
        ELSE IF IsError(rot.ret) THEN [self |-> self2, ret |-> rot.ret]
        ELSE IF self1.ephemeris = None
        THEN [self |-> self2, ret |-> GeocentricAt(self2, jd, pv.ret, rot.ret)]
        ELSE [self |-> self2, ret |-> BarycentricAt(self2, jd, pv.ret, rot.ret)]

(***************************************************************************)
(* The inputs                                                              *)
(***************************************************************************)

Float(v) == [type |-> "float", value |-> v]

LatitudeDegrees == {-90, 0, 90}
LongitudeDegrees == {0, 90}
Elevations == {0, 1000}
PolarOffsets == {0, ASEC_PER_UNIT}

\* What a caller may pass as latitude= or longitude=: nothing, an Angle, a
\* float, a tuple, a string with a compass suffix, or an int.
Values(degrees) ==
    {None}
      \cup {Angle(d) : d \in degrees}
      \cup {Float(d) : d \in degrees}
      \cup {[type |-> "tuple", value |-> <<d, 0, 0>>] : d \in degrees}
      \cup {[type |-> "str", number |-> n, suffix |-> s] :
                n \in {d \in degrees : d >= 0}, s \in {"N", "S", "E", "W"}}
      \cup {[type |-> "int", value |-> 90]}

\* The constructor calls of the specification that explores the constructor.
CtorArgs ==
    [latitude : Values(LatitudeDegrees),
     longitude : Values(LongitudeDegrees),
     latitude_degrees : {None} \cup {Float(d) : d \in LatitudeDegrees},
     longitude_degrees : {None} \cup {Float(d) : d \in LongitudeDegrees},
     elevation_m : {0},
     x : {0},
     y : PolarOffsets]

\* The constructor calls of the specifications that explore the queries.
QueryArgs ==
    [latitude : {None},
     longitude : {None},
     latitude_degrees : {Float(d) : d \in LatitudeDegrees},
     longitude_degrees : {Float(d) : d \in LongitudeDegrees},
     elevation_m : Elevations,
     x : PolarOffsets,
     y : PolarOffsets]

Ephemerides == {[type |-> "Ephemeris", name |-> "de421"]}

Identity3 == << <<1, 0, 0>>, <<0, 1, 0>>, <<0, 0, 1>> >>
QuarterX == << <<1, 0, 0>>, <<0, 0, -1>>, <<0, 1, 0>> >>
Sheared == << <<1, 1, 0>>, <<0, 1, 0>>, <<0, 0, 1>> >>

\* One instant of Earth orientation: the matrix M and the sidereal time in
\* hours.  Batches are made of two of the instants.
Instants == [M : {Identity3, QuarterX, Sheared}, gast : {0, 6}]
BatchInstants == {[M |-> Identity3, gast |-> 6], [M |-> QuarterX, gast |-> 0]}

\* The matrices ms as one array, with a batch axis or without.
MatArray(ms, batched) ==
    [bshape |-> IF batched THEN <<Len(ms)>> ELSE << >>,
     at |-> [i \in 1..3 |-> [j \in 1..3 |->
                [k \in 1..Len(ms) |-> ms[k][i][j]]]]]

\* The first two axes of A exchanged.
Transposed(A) ==
    [bshape |-> A.bshape,
     at |-> [i \in 1..3 |-> [j \in 1..3 |-> A.at[j][i]]]]

\* The orientation state of one instant.
JDInstant(i) ==
    [M |-> MatArray(<<i.M>>, FALSE),
     MT |-> Transposed(MatArray(<<i.M>>, FALSE)),
     gast |-> Scalar(i.gast)]

\* The orientation state of a batch: M and MT hold the first n1 instants
\* of s and gast the first n2.
JDBatch(s, n1, n2) ==
    [M |-> MatArray([k \in 1..n1 |-> s[k].M], TRUE),
     MT |-> Transposed(MatArray([k \in 1..n1 |-> s[k].M], TRUE)),
     gast |-> [bshape |-> <<n2>>, at |-> [k \in 1..n2 |-> s[k].gast]]]

\* An orientation state whose M and MT are those of one instant and whose
\* gast is a batch, and one whose M and MT are a batch and whose gast is
\* that of one instant.
JDGastBatch(s) ==
    [M |-> JDInstant(s[1]).M,
     MT |-> JDInstant(s[1]).MT,
     gast |-> JDBatch(s, Len(s), Len(s)).gast]

JDMatrixBatch(s) ==
    [M |-> JDBatch(s, Len(s), Len(s)).M,
     MT |-> JDBatch(s, Len(s), Len(s)).MT,
     gast |-> JDInstant(s[1]).gast]

\* The orientation states with batches of up to maxb instants; with
\* mismatched, M and gast may differ in shape.
JDsUpTo(maxb, mismatched) ==
    {JDInstant(i) : i \in Instants}
      \cup UNION {{JDBatch(s, p[1], p[2]) :
                      s \in [1..len -> BatchInstants],
                      p \in {q \in (1..len) \X (1..len) :
                                /\ q[1] = len \/ q[2] = len
                                /\ mismatched \/ q[1] = q[2]}} :
                  len \in 1..maxb}
      \cup IF mismatched
           THEN UNION {{JDGastBatch(s) : s \in [1..len -> BatchInstants]}
                          \cup {JDMatrixBatch(s) :
                                    s \in [1..len -> BatchInstants]} :
                       len \in 1..maxb}
           ELSE {}

JDs == JDsUpTo(MaxBatch, TRUE)
IdemJDs == JDsUpTo(MaxIdemBatch, FALSE)

(***************************************************************************)
(* The state machine                                                       *)
(***************************************************************************)

VARIABLES
    topos,      \* the Topos object, or None before one is constructed
    args,       \* the arguments of the last constructor call
    raised,     \* the exception of the last constructor call, or None
    call,       \* the query in progress, [op, jd], or None
    result,     \* what the query in progress returned or raised
    earlier     \* an earlier _position_and_velocity call, [jd, ret], or None

vars == <<topos, args, raised, call, result, earlier>>

Init ==
    /\ topos = None
    /\ args = None
    /\ raised = None
    /\ call = None
    /\ result = None
    /\ earlier = None

\* t = Topos(...)
Construct(a) ==
    /\ call = None
    /\ args' = a
    /\ LET r == Topos_init(a)
       IN  IF IsError(r)
           THEN topos' = None /\ raised' = r
           ELSE topos' = r /\ raised' = None
    /\ UNCHANGED <<call, result, earlier>>

\* t.ephemeris = e, as the callers that place a Topos on a planet do.
AttachEphemeris(e) ==
    /\ topos # None
    /\ call = None
    /\ topos.ephemeris = None
    /\ topos' = [topos EXCEPT !.ephemeris = e]
    /\ UNCHANGED <<args, raised, call, result, earlier>>

CallCompute(jd) ==
    /\ topos # None
    /\ call = None
    /\ call' = [op |-> "compute", jd |-> jd]
    /\ result' = compute(topos, jd).ret
    /\ topos' = compute(topos, jd).self
    /\ UNCHANGED <<args, raised, earlier>>

CallAt(jd) ==
    /\ topos # None
    /\ call = None
    /\ call' = [op |-> "at", jd |-> jd]
    /\ result' = at(topos, jd).ret
    /\ topos' = at(topos, jd).self
    /\ UNCHANGED <<args, raised, earlier>>

CallPositionAndVelocity(jd, remember) ==
    /\ topos # None
    /\ call = None
    /\ call' = [op |-> "_position_and_velocity", jd |-> jd]
    /\ result' = _position_and_velocity(topos, jd).ret
    /\ topos' = _position_and_velocity(topos, jd).self
    /\ earlier' = IF remember THEN [jd |-> jd, ret |-> result'] ELSE earlier
    /\ UNCHANGED <<args, raised>>

CallAltazRotation(jd) ==
    /\ topos # None
    /\ call = None
    /\ call' = [op |-> "_altaz_rotation", jd |-> jd]
    /\ result' = _altaz_rotation(topos, jd).ret
    /\ topos' = _altaz_rotation(topos, jd).self
    /\ UNCHANGED <<args, raised, earlier>>

\* The caller takes the result: the query is over.
Return ==
    /\ call # None
    /\ call' = None
    /\ result' = None
    /\ UNCHANGED <<topos, args, raised, earlier>>

\* One location, constructed once and then queried.
Next ==
    \/ topos = None /\ \E a \in QueryArgs : Construct(a)
    \/ \E e \in Ephemerides : AttachEphemeris(e)
    \/ \E jd \in JDs : CallCompute(jd)
    \/ \E jd \in JDs : CallAt(jd)
    \/ \E jd \in JDs : CallPositionAndVelocity(jd, FALSE)
    \/ \E jd \in JDs : CallAltazRotation(jd)
    \/ Return

Spec == Init /\ [][Next]_vars

\* del t, or the end of the except clause that caught the exception.
Discard ==
    /\ call = None
    /\ args # None
    /\ topos' = None
    /\ args' = None
    /\ raised' = None
    /\ UNCHANGED <<call, result, earlier>>

\* The constructor alone, called with every form of argument.
NextCtor ==
    \/ args = None /\ \E a \in CtorArgs : Construct(a)
    \/ Discard

SpecCtor == Init /\ [][NextCtor]_vars

\* One location queried again and again, any _position_and_velocity call
\* being remembered or not.
NextIdem ==
    \/ topos = None /\ \E a \in QueryArgs : Construct(a)
    \/ \E e \in Ephemerides : AttachEphemeris(e)
    \/ \E jd \in IdemJDs : CallCompute(jd)
    \/ \E jd \in IdemJDs : CallAt(jd)
    \/ \E jd \in IdemJDs, r \in BOOLEAN : CallPositionAndVelocity(jd, r)
    \/ \E jd \in IdemJDs : CallAltazRotation(jd)
    \/ Return

SpecIdem == Init /\ [][NextIdem]_vars

(***************************************************************************)
(* Vocabulary of the properties                                            *)
(***************************************************************************)

\* The query in progress is op and it returned a value (raised nothing).
Returned(op) == call # None /\ call.op = op /\ ~IsError(result)

\* The product A . B of two (batches of) matrices.
MatMul(A, B) ==
    LET s == BroadcastShape(A.bshape, B.bshape)
    IN  [bshape |-> s,
         at |-> [i \in 1..3 |-> [k \in 1..3 |-> [n \in 1..Size(s) |->
                    A.at[i][1][Idx(A.bshape, n)] * B.at[1][k][Idx(B.bshape, n)]
                      + A.at[i][2][Idx(A.bshape, n)] * B.at[2][k][Idx(B.bshape, n)]
                      + A.at[i][3][Idx(A.bshape, n)] * B.at[3][k][Idx(B.bshape, n)]]]]]

\* The product A . v of a (batch of) matrices and a (batch of) vectors.
MatVec(A, v) ==
    LET s == BroadcastShape(A.bshape, v.bshape)
    IN  [bshape |-> s,
         at |-> [i \in 1..3 |-> [n \in 1..Size(s) |->
                    A.at[i][1][Idx(A.bshape, n)] * v.at[1][Idx(v.bshape, n)]
                      + A.at[i][2][Idx(A.bshape, n)] * v.at[2][Idx(v.bshape, n)]
                      + A.at[i][3][Idx(A.bshape, n)] * v.at[3][Idx(v.bshape, n)]]]]

\* The 3 x 3 matrix of instant n of A, and the 3-vector of instant n of v.
MatAt(A, n) == [i \in 1..3 |-> [j \in 1..3 |-> A.at[i][j][n]]]
VecAt(v, n) == [i \in 1..3 |-> v.at[i][n]]

\* A plain 3-vector as an array of one instant.
Vec(v) == [bshape |-> << >>, at |-> [i \in 1..3 |-> <<v[i]>>]]

\* The matrix of instant n of A is orthogonal: its transpose times it is
\* the identity.
Orthogonal(A, n) == MatAt(MatMul(Transposed(A), A), n) = Identity3

TestVectors == {<<1, 0, 0>>, <<0, 1, 0>>, <<0, 0, 1>>, <<1, 2, 3>>}

\* The polar rotations of a location.
PolarX(self) == rot_x(Scalar(AsecToRad(self.y)))
PolarY(self) == rot_y(Scalar(AsecToRad(self.x)))

\* terra for a location at the instants of jd.
Terr(self, jd) ==
    terra(self.latitude.radians, self.longitude.radians, self.elevation.au,
          jd.gast)

(***************************************************************************)
(* C1: the constructor                                                     *)
(***************************************************************************)

\* The parameter was supplied in one of the forms the constructor takes: as
\* degrees, as an Angle, or as a str, a float or a tuple.
Supplied(value, degrees) ==
    degrees # None \/ value.type \in {"Angle", "str", "float", "tuple"}

\* The normalizer is asked to interpret the value and refuses it.
Refused(value, degrees, name, psuffix, nsuffix) ==
    /\ degrees = None
    /\ value.type \in {"str", "float", "tuple"}
    /\ IsError(_interpret_ltude(value, name, psuffix, nsuffix))

LatSupplied == Supplied(args.latitude, args.latitude_degrees)
LonSupplied == Supplied(args.longitude, args.longitude_degrees)
LatRefused == Refused(args.latitude, args.latitude_degrees, "latitude", "N", "S")
LonRefused == Refused(args.longitude, args.longitude_degrees, "longitude", "E", "W")

\* The message names the parameter and the two forms it can be given in.
Names(message, name) ==
    \E i, j \in DOMAIN message :
        /\ i # j
        /\ name = "latitude" =>
              /\ message[i] = "latitude_degrees=<float>"
              /\ message[j] = "latitude=<skyfield.units.Angle object>"
        /\ name = "longitude" =>
              /\ message[i] = "longitude_degrees=<float>"
              /\ message[j] = "longitude=<skyfield.units.Angle object>"

\* The constructor raised its own TypeError about the parameter.
RaisedTypeError(name) ==
    /\ topos = None
    /\ raised # None
    /\ raised.error = "TypeError"
    /\ raised.raisedBy = "Topos.__init__"
    /\ Names(raised.message, name)

Constructed ==
    /\ raised = None
    /\ topos # None
    /\ topos.latitude.type = "Angle"
    /\ topos.longitude.type = "Angle"

\* C1 as stated: the constructor fails, with a TypeError that names the
\* parameter and its two forms, when the latitude or the longitude is
\* supplied in none of the forms, and succeeds, storing Angles, in every
\* other case.
C1_AsStated ==
    args # None =>
        /\ ~LatSupplied => RaisedTypeError("latitude")
        /\ LatSupplied /\ ~LonSupplied => RaisedTypeError("longitude")
        /\ LatSupplied /\ LonSupplied => Constructed

\* C1, amended: as stated, except that a value of a supported type which the
\* normalizer refuses (a string with the wrong compass suffix) makes the
\* constructor fail too, with the normalizer's exception, the latitude's
\* before anything is said about the longitude.
C1_Constructor ==
    args # None =>
        /\ ~LatSupplied => RaisedTypeError("latitude")
        /\ LatSupplied /\ ~LatRefused /\ ~LonSupplied
              => RaisedTypeError("longitude")
        /\ LatSupplied /\ ~LatRefused /\ LonSupplied /\ ~LonRefused
              => Constructed
        /\ LatRefused \/ (LatSupplied /\ LonSupplied /\ LonRefused)
              => /\ topos = None
                 /\ raised # None
                 /\ raised.raisedBy = "_interpret_ltude"
                 /\ raised.parameter = IF LatRefused THEN "latitude"
                                       ELSE "longitude"

\* A call with a good latitude and an int as longitude raised the TypeError.
C1_Witness ==
    /\ args # None
    /\ LatSupplied
    /\ ~LatRefused
    /\ args.longitude.type = "int"
    /\ args.longitude_degrees = None
    /\ RaisedTypeError("longitude")

(***************************************************************************)
(* C2: the position                                                        *)
(***************************************************************************)

\* C2: the position _position_and_velocity returns is
\* Rx(y) . Ry(x) . MT . posTerr, a rotation skipped for a zero offset being
\* the identity; with zero offsets and MT the identity it is posTerr.
C2_Position ==
    Returned("_position_and_velocity") =>
        LET jd == call.jd
            posTerr == Terr(topos, jd).pos
        IN  /\ result.pos
                 = MatVec(MatMul(MatMul(PolarX(topos), PolarY(topos)), jd.MT),
                          posTerr)
            /\ result.pos
                 = MatVec(PolarX(topos),
                          MatVec(PolarY(topos), MatVec(jd.MT, posTerr)))
            /\ (/\ topos.x = 0
                /\ topos.y = 0
                /\ jd.MT.bshape = jd.gast.bshape
                /\ \A n \in 1..Size(jd.MT.bshape) :
                      MatAt(jd.MT, n) = Identity3)
                  => result.pos = posTerr

\* Both offsets are nonzero, MT is a batch of rotations that are not all
\* the identity, and the position differs from the unrotated one.
C2_Witness ==
    /\ Returned("_position_and_velocity")
    /\ topos.x # 0
    /\ topos.y # 0
    /\ topos.latitude.degrees = 0
    /\ call.jd.MT.bshape = <<2>>
    /\ MatAt(call.jd.M, 2) = QuarterX
    /\ result.pos # Terr(topos, call.jd).pos
    /\ result.pos # MatVec(call.jd.MT, Terr(topos, call.jd).pos)
    /\ result.pos # MatVec(PolarY(topos),
                           MatVec(PolarX(topos),
                                  MatVec(call.jd.MT, Terr(topos, call.jd).pos)))

(***************************************************************************)
(* C3: the velocity                                                        *)
(***************************************************************************)

\* The location with other polar offsets.
WithOffsets(self, x, y) == [self EXCEPT !.x = x, !.y = y]

\* C3: the velocity is MT . velTerr whatever the polar offsets: a location
\* that differs only in the offsets gets the same velocity, and its
\* position differs by the polar rotations alone.
C3_Velocity ==
    Returned("_position_and_velocity") =>
        LET jd == call.jd
        IN  /\ result.vel = MatVec(jd.MT, Terr(topos, jd).vel)
            /\ \A x, y \in PolarOffsets :
                  LET other == _position_and_velocity(
                                   WithOffsets(topos, x, y), jd).ret
                      plain == _position_and_velocity(
                                   WithOffsets(topos, 0, 0), jd).ret
                  IN  /\ other.vel = result.vel
                      /\ other.pos
                           = MatVec(PolarX(WithOffsets(topos, x, y)),
                                    MatVec(PolarY(WithOffsets(topos, x, y)),
                                           plain.pos))

\* A location with a nonzero offset and a velocity that the polar rotation
\* would change, had it been applied.
C3_Witness ==
    /\ Returned("_position_and_velocity")
    /\ topos.x # 0
    /\ result.vel # MatVec(PolarY(topos), result.vel)
    /\ result.pos # _position_and_velocity(WithOffsets(topos, 0, 0),
                                           call.jd).ret.pos

(***************************************************************************)
(* C4: the horizon rotation                                                *)
(***************************************************************************)

\* The Z rotation by -(longitude + gast . 2 pi / 24).
LongitudeRotation(self, jd) ==
    rot_z([bshape |-> jd.gast.bshape,
           at |-> [k \in 1..Size(jd.gast.bshape) |->
                      -(self.longitude.radians
                          + (jd.gast.at[k] * tau) \div HOURS_PER_DAY)]])

\* C4: _altaz_rotation returns R_lat . R_lon . M, with R_lat the matrix
\* cached by the constructor; applied to a vector it applies M, then R_lon,
\* then R_lat.
C4_HorizonRotation ==
    Returned("_altaz_rotation") =>
        LET jd == call.jd
        IN  /\ result = MatMul(MatMul(topos.R_lat, LongitudeRotation(topos, jd)), jd.M)
            /\ \A v \in TestVectors :
                  MatVec(result, Vec(v))
                    = MatVec(topos.R_lat,
                             MatVec(LongitudeRotation(topos, jd), MatVec(jd.M, Vec(v))))

\* A rotation whose three factors are all different from the identity and
\* do not commute.
C4_Witness ==
    /\ Returned("_altaz_rotation")
    /\ topos.latitude.degrees = 90
    /\ topos.longitude.degrees = 90
    /\ call.jd.M.bshape = <<2>>
    /\ MatAt(call.jd.M, 2) = QuarterX
    /\ result # MatMul(MatMul(call.jd.M, LongitudeRotation(topos, call.jd)), topos.R_lat)
    /\ result # MatMul(MatMul(LongitudeRotation(topos, call.jd), topos.R_lat), call.jd.M)

(***************************************************************************)
(* C5: at                                                                  *)
(***************************************************************************)

\* C5: a new location has no ephemeris; at returns a Geocentric with the
\* position and velocity of _position_and_velocity when none is attached
\* at the call, and else a Barycentric with the Earth's position and
\* velocity added to them; either carries the rotation of _altaz_rotation
\* for the same jd and the location itself.
C5_At ==
    /\ [][topos = None /\ topos' # None => topos'.ephemeris = None]_vars
    /\ [](Returned("at") =>
            LET jd == call.jd
                pv == _position_and_velocity(topos, jd).ret
                e == EarthAt(topos.ephemeris, jd)
            IN  /\ topos.ephemeris = None =>
                      /\ result.type = "Geocentric"
                      /\ result.position = pv.pos
                      /\ result.velocity = pv.vel
                /\ topos.ephemeris # None =>
                      /\ result.type = "Barycentric"
                      /\ result.position = VecAdd(e.position, pv.pos)
                      /\ result.velocity = VecAdd(e.velocity, pv.vel)
                /\ result.altaz_rotation = _altaz_rotation(topos, jd).ret
                /\ result.topos = topos)

\* at returned a Barycentric for a batch of instants.
C5_Witness ==
    /\ Returned("at")
    /\ topos.ephemeris # None
    /\ result.type = "Barycentric"
    /\ result.position.bshape = <<2>>
    /\ result.position # result.rGCRS

(***************************************************************************)
(* C6: batches                                                             *)
(***************************************************************************)

\* Instant i of a batch of matrices, as an array of one instant.
SliceMat(A, i) ==
    [bshape |-> << >>,
     at |-> [r \in 1..3 |-> [c \in 1..3 |-> <<A.at[r][c][i]>>]]]

\* Instant i of the orientation state of a batch.
JDAt(jd, i) ==
    [M |-> SliceMat(jd.M, i),
     MT |-> SliceMat(jd.MT, i),
     gast |-> Scalar(jd.gast.at[i])]

\* M, MT and gast are batches of the same length.
ConsistentBatch(jd) ==
    /\ jd.M.bshape # << >>
    /\ jd.MT.bshape = jd.M.bshape
    /\ jd.gast.bshape = jd.M.bshape

\* C6: for a batch of n orientation states, instant i of the position and
\* of the velocity is what the call on orientation state i alone returns,
\* for every i.
C6_BatchConsistency ==
    Returned("_position_and_velocity") /\ ConsistentBatch(call.jd) =>
        /\ result.pos.bshape = call.jd.gast.bshape
        /\ result.vel.bshape = call.jd.gast.bshape
        /\ \A i \in 1..Size(call.jd.gast.bshape) :
              LET one == _position_and_velocity(topos, JDAt(call.jd, i)).ret
              IN  /\ VecAt(result.pos, i) = VecAt(one.pos, 1)
                  /\ VecAt(result.vel, i) = VecAt(one.vel, 1)

\* A batch of three instants whose positions are not all the same, for a
\* location with polar offsets.
C6_Witness ==
    /\ Returned("_position_and_velocity")
    /\ ConsistentBatch(call.jd)
    /\ call.jd.gast.bshape = <<3>>
    /\ topos.x # 0
    /\ topos.y # 0
    /\ VecAt(result.pos, 1) # VecAt(result.pos, 2)
    /\ VecAt(result.pos, 2) # VecAt(result.pos, 3)

(***************************************************************************)
(* C7: the horizon rotation is orthogonal                                  *)
(***************************************************************************)

\* C7: at every instant where M is orthogonal, the matrix R that
\* _altaz_rotation returns is orthogonal, and its transpose takes R . v
\* back to v; R_lat is the Y rotation with its rows reversed.
C7_RoundTrip ==
    Returned("_altaz_rotation") =>
        /\ topos.R_lat = ReverseRows(rot_y(Scalar(topos.latitude.radians)))
        /\ \A n \in 1..Size(result.bshape) :
              Orthogonal(call.jd.M, Idx(call.jd.M.bshape, n)) =>
                  /\ Orthogonal(result, n)
                  /\ \A v \in TestVectors :
                        VecAt(MatVec(Transposed(result),
                                     MatVec(result, Vec(v))), n) = v

\* A rotation for a location at the pole, where reversing the rows of
\* R_lat changes it, and an M that is a rotation.
C7_Witness ==
    /\ Returned("_altaz_rotation")
    /\ topos.latitude.degrees = 90
    /\ topos.R_lat # rot_y(Scalar(topos.latitude.radians))
    /\ call.jd.M.bshape = << >>
    /\ MatAt(call.jd.M, 1) = QuarterX
    /\ Orthogonal(result, 1)

\* The premise matters: with an M that is not orthogonal, R is not.
C7_ShearedReached ==
    /\ Returned("_altaz_rotation")
    /\ MatAt(call.jd.M, 1) = Sheared
    /\ ~Orthogonal(result, 1)

(***************************************************************************)
(* C8: mismatched batches                                                  *)
(***************************************************************************)

\* The batch shapes of MT and gast differ: one is a batch and the other is
\* not, or they are batches of different lengths.
DifferentLengths(jd) == jd.MT.bshape # jd.gast.bshape

\* numpy cannot broadcast the two: both are batches, of different lengths,
\* and neither length is 1.
Unbroadcastable(jd) ==
    /\ jd.MT.bshape # << >>
    /\ jd.gast.bshape # << >>
    /\ jd.MT.bshape # jd.gast.bshape
    /\ jd.MT.bshape # <<1>>
    /\ jd.gast.bshape # <<1>>

\* The location is as the constructor built it.
AsConstructed ==
    topos = [Topos_init(args) EXCEPT !.ephemeris = topos.ephemeris]

\* C8 as stated: with MT and gast of different batch shapes,
\* _position_and_velocity returns nothing and fails, and the location is
\* left as it was.
C8_AsStated ==
    /\ call # None
    /\ call.op = "_position_and_velocity"
    /\ DifferentLengths(call.jd)
    => IsError(result) /\ AsConstructed

\* C8, amended: with MT and gast batches of different lengths neither of
\* which is 1, _position_and_velocity fails with the exception numpy's
\* einsum raises, as it is, and the location is left as it was; a single
\* instant or a batch of length 1 is broadcast against the other and the
\* call returns a result of the longer shape.
C8_ShapeMismatch ==
    /\ call # None
    /\ call.op = "_position_and_velocity"
    /\ DifferentLengths(call.jd)
    => /\ AsConstructed
       /\ IF Unbroadcastable(call.jd)
          THEN result = BroadcastError
          ELSE /\ ~IsError(result)
               /\ Size(result.pos.bshape)
                    = IF Size(call.jd.MT.bshape) > Size(call.jd.gast.bshape)
                      THEN Size(call.jd.MT.bshape)
                      ELSE Size(call.jd.gast.bshape)
               /\ result.vel.bshape = result.pos.bshape

\* MT of two instants and gast of three: the call failed.
C8_Witness ==
    /\ call # None
    /\ call.op = "_position_and_velocity"
    /\ call.jd.MT.bshape = <<2>>
    /\ call.jd.gast.bshape = <<3>>
    /\ result = BroadcastError
    /\ topos.x # 0

(***************************************************************************)
(* C9: the same inputs give the same result                                *)
(***************************************************************************)

Fields(self) ==
    <<self.latitude, self.longitude, self.elevation, self.x, self.y,
      self.R_lat>>

\* C10: once constructed, the location keeps its latitude, longitude,
\* elevation, polar offsets and latitude matrix through every query, and
\* the latitude matrix is the one derived from the latitude.
C10_Immutable ==
    /\ [](topos # None =>
            topos.R_lat = ReverseRows(rot_y(Scalar(topos.latitude.radians))))
    /\ [][topos # None => topos' # None /\ Fields(topos') = Fields(topos)]_vars

\* A query of each kind has run: at returned a Barycentric.
C10_Witness ==
    /\ Returned("at")
    /\ result.type = "Barycentric"
    /\ topos.latitude.degrees = -90
    /\ topos.x # 0
    /\ AsConstructed

====
